---- MODULE Spec2Model ----
(***************************************************************************)
(* Model of src/src/pages/api/check-css.ts: the CSS coverage analysis      *)
(* (parseCSSRules, isRuleUsed, the per-entry loop and the aggregation of  *)
(* handler) and the request handler with its result cache.                 *)
(*                                                                         *)
(* Strings are sequences of one-character strings.  Offsets are 0-based,   *)
(* as in the source; TLA+ sequences are 1-based, so text[p + 1] is the     *)
(* character at offset p.                                                  *)
(***************************************************************************)
EXTENDS Integers, Sequences, FiniteSets, TLC

\* ------------------------------------------------------------------ bounds
MaxLen == 5        \* longest stylesheet text, analysed with at most one range
MaxShortLen == 3   \* longest stylesheet text analysed with several ranges
MaxRanges == 2     \* most ranges of one stylesheet
MaxFiles == 2      \* most stylesheets of one page
NumReq == 2        \* requests handled, possibly at the same time
MaxTicks == 2      \* advances of the clock

\* The characters a stylesheet text is drawn from: an ordinary character,
\* white space and the two braces.
Chars == {"a", " ", "{", "}"}

\* The sequences over S of length at most n.
SeqsUpTo(S, n) == UNION {[1..m -> S] : m \in 0..n}

\* ------------------------------------------------------------ pure helpers
IsSpace(c) == c = " "

RECURSIVE TrimStart(_)
TrimStart(s) ==
  IF s = <<>> \/ ~IsSpace(Head(s)) THEN s ELSE TrimStart(Tail(s))

RECURSIVE TrimEnd(_)
TrimEnd(s) ==
  IF s = <<>> \/ ~IsSpace(s[Len(s)]) THEN s ELSE TrimEnd(SubSeq(s, 1, Len(s) - 1))

\* String.prototype.trim
Trim(s) == TrimEnd(TrimStart(s))

\* Variant of ParseLoop that pushes currentRule untrimmed.
RECURSIVE ParseLoopNoTrim(_, _, _, _, _)
ParseLoopNoTrim(cssText, i, rules, currentRule, braceCount) ==
  IF i > Len(cssText) THEN rules
  ELSE LET char == cssText[i]
           cur == Append(currentRule, char)
           opened == IF char = "{" THEN braceCount + 1 ELSE braceCount
           closed == IF char = "}" THEN opened - 1 ELSE opened
       IN IF char = "}" /\ closed = 0
          THEN ParseLoopNoTrim(cssText, i + 1, Append(rules, cur), <<>>, closed)
          ELSE ParseLoopNoTrim(cssText, i + 1, rules, cur, closed)

\* Variant of ParseLoop that does not empty currentRule after a push.
RECURSIVE ParseLoopNoReset(_, _, _, _, _)
ParseLoopNoReset(cssText, i, rules, currentRule, braceCount) ==
  IF i > Len(cssText) THEN rules
  ELSE LET char == cssText[i]
           cur == Append(currentRule, char)
           opened == IF char = "{" THEN braceCount + 1 ELSE braceCount
           closed == IF char = "}" THEN opened - 1 ELSE opened
       IN IF char = "}" /\ closed = 0
          THEN ParseLoopNoReset(cssText, i + 1, Append(rules, Trim(cur)), cur, closed)
          ELSE ParseLoopNoReset(cssText, i + 1, rules, cur, closed)

\* The body of the for loop of parseCSSRules, from index i (1-based) on.
RECURSIVE ParseLoop(_, _, _, _, _)
ParseLoop(cssText, i, rules, currentRule, braceCount) ==
  IF i > Len(cssText) THEN rules
  ELSE LET char == cssText[i]
           cur == Append(currentRule, char)
           opened == IF char = "{" THEN braceCount + 1 ELSE braceCount
           closed == IF char = "}" THEN opened - 1 ELSE opened
       IN IF char = "}" /\ closed = 0
          THEN ParseLoop(cssText, i + 1, Append(rules, Trim(cur)), <<>>, closed)
          ELSE ParseLoop(cssText, i + 1, rules, cur, closed)

parseCSSRules(cssText) == ParseLoop(cssText, 1, <<>>, <<>>, 0)

\* Variant of IndexFrom that finds the last occurrence (lastIndexOf).
RECURSIVE IndexFromLast(_, _, _)
IndexFromLast(hay, needle, p) ==
  IF p + Len(needle) > Len(hay) THEN -1
  ELSE LET later == IndexFromLast(hay, needle, p + 1)
       IN IF later # -1 THEN later
          ELSE IF SubSeq(hay, p + 1, p + Len(needle)) = needle THEN p
          ELSE -1

\* String.prototype.indexOf: the 0-based offset of the first occurrence of
\* needle in hay at or after offset p, or -1.
RECURSIVE IndexFrom(_, _, _)
IndexFrom(hay, needle, p) ==
  IF p + Len(needle) > Len(hay) THEN -1
  ELSE IF SubSeq(hay, p + 1, p + Len(needle)) = needle THEN p
  ELSE IndexFrom(hay, needle, p + 1)

indexOf(hay, needle) == IndexFrom(hay, needle, 0)

\* Variant of SomeRangeContains that accepts any overlap.
SomeRangeOverlaps(ranges, from, to) ==
  \E j \in 1..Len(ranges) : from < ranges[j].end /\ to > ranges[j].start

\* Array.prototype.some over the ranges, with the predicate of isRuleUsed.
SomeRangeContains(ranges, from, to) ==
  \E j \in 1..Len(ranges) : from >= ranges[j].start /\ to <= ranges[j].end

isRuleUsed(rule, cssText, ranges) ==
  LET ruleStart == indexOf(cssText, rule)
  IN IF ruleStart = -1 THEN FALSE
     ELSE SomeRangeContains(ranges, ruleStart, ruleStart + Len(rule))

\* rule.split("{")[0]: the text before the first "{", the whole text if none.
RECURSIVE BeforeBrace(_)
BeforeBrace(s) ==
  IF s = <<>> \/ Head(s) = "{" THEN <<>> ELSE <<Head(s)>> \o BeforeBrace(Tail(s))

Selector(rule) == Trim(BeforeBrace(rule))

\* Variant of ReduceRanges that takes the ends as inclusive.
RECURSIVE ReduceRangesInclusive(_, _)
ReduceRangesInclusive(ranges, sum) ==
  IF ranges = <<>> THEN sum
  ELSE ReduceRangesInclusive(Tail(ranges),
                             sum + (Head(ranges).end - Head(ranges).start + 1))

\* entry.ranges.reduce((sum, range) => sum + (range.end - range.start), 0)
RECURSIVE ReduceRanges(_, _)
ReduceRanges(ranges, sum) ==
  IF ranges = <<>> THEN sum
  ELSE ReduceRanges(Tail(ranges), sum + (Head(ranges).end - Head(ranges).start))

UsedOf(ranges) == ReduceRanges(ranges, 0)

\* Variant of RuleLoop that lists the used rules instead of the unused ones.
RECURSIVE RuleLoopListsUsed(_, _, _, _)
RuleLoopListsUsed(rules, text, ranges, unusedRules) ==
  IF rules = <<>> THEN unusedRules
  ELSE LET rule == Head(rules)
           selector == Selector(rule)
           ruleBytes == Len(rule)
       IN IF isRuleUsed(rule, text, ranges)
          THEN RuleLoopListsUsed(Tail(rules), text, ranges,
                                 Append(unusedRules,
                                        [selector |-> selector, used |-> FALSE,
                                         bytes |-> ruleBytes]))
          ELSE RuleLoopListsUsed(Tail(rules), text, ranges, unusedRules)

\* The inner loop of handler over the rules of one entry.
RECURSIVE RuleLoop(_, _, _, _)
RuleLoop(rules, text, ranges, unusedRules) ==
  IF rules = <<>> THEN unusedRules
  ELSE LET rule == Head(rules)
           selector == Selector(rule)
           ruleBytes == Len(rule)
       IN IF ~isRuleUsed(rule, text, ranges)
          THEN RuleLoop(Tail(rules), text, ranges,
                        Append(unusedRules,
                               [selector |-> selector, used |-> FALSE, bytes |-> ruleBytes]))
          ELSE RuleLoop(Tail(rules), text, ranges, unusedRules)

\* entry.url || "inline <style>"
UrlOrInline(url) == IF url = "" THEN "inline <style>" ELSE url

\* One iteration of the outer loop of handler: the CSSFileDetail of an entry.
FileDetail(entry) ==
  [url |-> UrlOrInline(entry.url),
   total |-> Len(entry.text),
   used |-> UsedOf(entry.ranges),
   unusedRules |-> RuleLoop(parseCSSRules(entry.text), entry.text, entry.ranges, <<>>)]

\* usedBytes / totalBytes * 100 as a fraction num/den; the other branch of the
\* conditional is the literal 0.
LiteralZero == [num |-> 0, den |-> 1]

\* Variant of UsagePercent that divides whatever totalBytes is.
UsagePercentAlwaysDivides(totalBytes, usedBytes) ==
  [num |-> usedBytes * 100, den |-> totalBytes]

UsagePercent(totalBytes, usedBytes) ==
  IF totalBytes > 0 THEN [num |-> usedBytes * 100, den |-> totalBytes] ELSE LiteralZero

\* The outer loop of handler and the result it builds.
RECURSIVE EntryLoop(_, _, _, _)
EntryLoop(cssCoverage, totalBytes, usedBytes, files) ==
  IF cssCoverage = <<>>
  THEN [totalBytes |-> totalBytes,
        usedBytes |-> usedBytes,
        usagePercent |-> UsagePercent(totalBytes, usedBytes),
        files |-> files]
  ELSE LET detail == FileDetail(Head(cssCoverage))
       IN EntryLoop(Tail(cssCoverage), totalBytes + detail.total,
                    usedBytes + detail.used, Append(files, detail))

Analyze(cssCoverage) == EntryLoop(cssCoverage, 0, 0, <<>>)

\* ------------------------------------------------------------------- state
VARIABLES
  coverage,     \* cssCoverage: the entries page.coverage.stopCSSCoverage() returned
  phase,        \* "input" before the analysis loop has run, "done" after
  result,       \* the CSSUsageResult built from coverage
  segmented,    \* per entry, the local rules = parseCSSRules(entry.text)
  classified,   \* per entry and rule, what isRuleUsed returned in the loop
  \* the request handler, one invocation per request
  pc,           \* where each invocation of handler stands
  request,      \* req.method and req.body.url
  retries,      \* the local retries
  browser,      \* the local browser: "none", "open" or "closed"
  response,     \* what was sent with res.status(..).json(..)
  resultCache,  \* the module-level Map, per key: present, result, timestamp
  now,          \* Date.now()
  ticks,        \* how many times the clock has advanced
  \* history, read by the properties only
  attempts,     \* calls of page.goto made by each invocation
  failures,     \* calls of page.goto that threw
  checkedAt,    \* Date.now() when the invocation looked into the cache
  seenPuts,     \* how many resultCache.set for its key preceded that look
  puts          \* per key, the resultCache.set calls in order

coreVars == <<coverage, phase, result, segmented, classified>>

handlerVars == <<pc, request, retries, browser, response, resultCache, now, ticks>>

historyVars == <<attempts, failures, checkedAt, seenPuts, puts>>

vars == <<coreVars, handlerVars, historyVars>>

\* ------------------------------------------------------------------ inputs
RangesOf(len) ==
  {r \in [start : 0..len, end : 0..len] : r.start < r.end}

Texts == SeqsUpTo(Chars, MaxLen)

ShortTexts == SeqsUpTo(Chars, MaxShortLen)

\* One stylesheet: any text, any ranges with 0 <= start < end <= length, in any
\* order and overlapping or not.  Every text comes with no range and with each
\* single range; the short texts also come with every sequence of ranges.
TextsWithRanges ==
  UNION {{t} \X SeqsUpTo(RangesOf(Len(t)), 1) : t \in Texts}
  \cup UNION {{t} \X SeqsUpTo(RangesOf(Len(t)), MaxRanges) : t \in ShortTexts}

FileInputs == {<<[url |-> "", text |-> e[1], ranges |-> e[2]]>> : e \in TextsWithRanges}

\* ------------------------------------------------------- handler: values
CACHE_TTL == 1000 * 60 * 60

Req == 1..NumReq

Str(chars) == [type |-> "string", chars |-> chars]

UrlA == Str(<<"h", "t", "t", "p", ":", "a">>)
UrlB == Str(<<"h", "t", "t", "p", ":", "b">>)

\* The keys the cache can hold: the urls that pass the validation.
Keys == {UrlA, UrlB}

\* req.body.url: a valid url, or undefined, a number, "" or a string that does
\* not start with "http".
BodyUrls ==
  Keys \cup {[type |-> "undefined", chars |-> <<>>],
             [type |-> "number", chars |-> <<>>],
             Str(<<>>),
             Str(<<"f", "t", "p", ":", "a">>)}

Methods == {"POST", "GET"}

\* String.prototype.startsWith
StartsWith(chars, prefix) ==
  Len(chars) >= Len(prefix) /\ SubSeq(chars, 1, Len(prefix)) = prefix

\* !url || typeof url !== "string" || !url.startsWith("http"); a number is
\* taken to be non-zero, so only undefined and "" are falsy.
InvalidUrl(url) ==
  \/ url.type = "undefined"
  \/ (url.type = "string" /\ url.chars = <<>>)
  \/ url.type # "string"
  \/ ~StartsWith(url.chars, <<"h", "t", "t", "p">>)

NoEntry == [present |-> FALSE, result |-> Analyze(<<>>), timestamp |-> 0]

NoResponse == [status |-> 0, body |-> [error |-> <<>>]]

NoRequest == [method |-> "", url |-> [type |-> "undefined", chars |-> <<>>]]

\* Variant of CacheHit that still serves an entry exactly one TTL old.
CacheHitAtTtl(cached, dateNow) == cached.present /\ dateNow - cached.timestamp <= CACHE_TTL

\* cached && Date.now() - cached.timestamp < CACHE_TTL
CacheHit(cached, dateNow) == cached.present /\ dateNow - cached.timestamp < CACHE_TTL

\* Variant of CacheSet that keeps an entry already there.
CacheSetIfAbsent(cache, url, res, dateNow) ==
  IF cache[url].present THEN cache
  ELSE [cache EXCEPT ![url] = [present |-> TRUE, result |-> res, timestamp |-> dateNow]]

\* resultCache.set(url, { result, timestamp })
CacheSet(cache, url, res, dateNow) ==
  [cache EXCEPT ![url] = [present |-> TRUE, result |-> res, timestamp |-> dateNow]]

\* The body the catch block sends for what was thrown.
CatchBody(error) ==
  IF error.isError THEN [error |-> <<"CSS analysis failed: ", error.message>>]
  ELSE [error |-> <<"CSS analysis failed">>]

Thrown(message) == [isError |-> TRUE, message |-> message]

\* What stopCSSCoverage can return in the handler specification: no stylesheet,
\* or one inline block with two rules of which the first is covered.
HandlerCoverages ==
  {<<>>,
   <<[url |-> "", text |-> <<"a", "{", "}", "{", "}">>,
      ranges |-> <<[start |-> 0, end |-> 3]>>]>>}

\* ------------------------------------------------------ handler: actions
\* try ... catch: the error is logged and answered with a 500, then finally.
Catch(r, error) ==
  /\ response' = [response EXCEPT ![r] = [status |-> 500, body |-> CatchBody(error)]]
  /\ pc' = [pc EXCEPT ![r] = "finally"]

\* handler up to its first await: method and url checks, the cache look-up.
Receive(r, method, url) ==
  /\ pc[r] = "idle"
  /\ request' = [request EXCEPT ![r] = [method |-> method, url |-> url]]
  /\ IF method # "POST"
     THEN /\ response' = [response EXCEPT
                            ![r] = [status |-> 405, body |-> [error |-> <<"Method Not Allowed">>]]]
          /\ pc' = [pc EXCEPT ![r] = "done"]
          /\ UNCHANGED <<checkedAt, seenPuts>>
     ELSE IF InvalidUrl(url)
     THEN /\ response' = [response EXCEPT
                            ![r] = [status |-> 400, body |-> [error |-> <<"Invalid URL">>]]]
          /\ pc' = [pc EXCEPT ![r] = "done"]
          /\ UNCHANGED <<checkedAt, seenPuts>>
     ELSE /\ checkedAt' = [checkedAt EXCEPT ![r] = now]
          /\ seenPuts' = [seenPuts EXCEPT ![r] = Len(puts[url])]
          /\ IF CacheHit(resultCache[url], now)
             THEN /\ response' = [response EXCEPT
                                    ![r] = [status |-> 200, body |-> resultCache[url].result]]
                  /\ pc' = [pc EXCEPT ![r] = "done"]
             ELSE /\ pc' = [pc EXCEPT ![r] = "launch"]
                  /\ UNCHANGED response
  /\ UNCHANGED <<coreVars, retries, browser, resultCache, now, ticks, attempts, failures, puts>>

\* await puppeteer.launch(...) resolves.
LaunchOk(r) ==
  /\ pc[r] = "launch"
  /\ browser' = [browser EXCEPT ![r] = "open"]
  /\ pc' = [pc EXCEPT ![r] = "setup"]
  /\ UNCHANGED <<coreVars, request, retries, response, resultCache, now, ticks, historyVars>>

\* await chromium.executablePath() or puppeteer.launch(...) rejects.
LaunchFail(r) ==
  /\ pc[r] = "launch"
  /\ Catch(r, Thrown("launch"))
  /\ UNCHANGED <<coreVars, request, retries, browser, resultCache, now, ticks, historyVars>>

\* newPage, setUserAgent, setViewport, startCSSCoverage resolve; retries = 3.
SetupOk(r) ==
  /\ pc[r] = "setup"
  /\ retries' = [retries EXCEPT ![r] = 3]
  /\ pc' = [pc EXCEPT ![r] = "goto"]
  /\ UNCHANGED <<coreVars, request, browser, response, resultCache, now, ticks, historyVars>>

\* One of newPage, setUserAgent, setViewport, startCSSCoverage rejects.
SetupFail(r) ==
  /\ pc[r] = "setup"
  /\ Catch(r, Thrown("page"))
  /\ UNCHANGED <<coreVars, request, retries, browser, resultCache, now, ticks, historyVars>>

\* await page.goto(url, ...) resolves: break.
GotoOk(r) ==
  /\ pc[r] = "goto"
  /\ retries[r] > 0
  /\ attempts' = [attempts EXCEPT ![r] = @ + 1]
  /\ pc' = [pc EXCEPT ![r] = "settle"]
  /\ UNCHANGED <<coreVars, request, retries, browser, response, resultCache, now, ticks,
                 failures, checkedAt, seenPuts, puts>>

\* Variant of GotoFail that never rethrows: after the last failure the while
\* loop ends and the handler goes on.
GotoFailNeverRethrows(r) ==
  /\ pc[r] = "goto"
  /\ retries[r] > 0
  /\ attempts' = [attempts EXCEPT ![r] = @ + 1]
  /\ failures' = [failures EXCEPT ![r] = @ + 1]
  /\ retries' = [retries EXCEPT ![r] = @ - 1]
  /\ pc' = [pc EXCEPT ![r] = "backoff"]
  /\ UNCHANGED response
  /\ UNCHANGED <<coreVars, request, browser, resultCache, now, ticks, checkedAt, seenPuts, puts>>

\* await page.goto(url, ...) rejects: retries--, rethrow at 0, else sleep.
GotoFail(r) ==
  /\ pc[r] = "goto"
  /\ retries[r] > 0
  /\ attempts' = [attempts EXCEPT ![r] = @ + 1]
  /\ failures' = [failures EXCEPT ![r] = @ + 1]
  /\ retries' = [retries EXCEPT ![r] = @ - 1]
  /\ IF retries[r] - 1 = 0
     THEN Catch(r, Thrown("navigation"))
     ELSE /\ pc' = [pc EXCEPT ![r] = "backoff"]
          /\ UNCHANGED response
  /\ UNCHANGED <<coreVars, request, browser, resultCache, now, ticks, checkedAt, seenPuts, puts>>

\* The 1000 ms timer after a failed attempt fires: next turn of the while loop.
Backoff(r) ==
  /\ pc[r] = "backoff"
  /\ pc' = [pc EXCEPT ![r] = IF retries[r] > 0 THEN "goto" ELSE "settle"]
  /\ UNCHANGED <<coreVars, request, retries, browser, response, resultCache, now, ticks,
                 historyVars>>

\* The 2000 ms timer for dynamic content fires.
Settle(r) ==
  /\ pc[r] = "settle"
  /\ pc' = [pc EXCEPT ![r] = "collect"]
  /\ UNCHANGED <<coreVars, request, retries, browser, response, resultCache, now, ticks,
                 historyVars>>

\* await stopCSSCoverage() resolves with cssCoverage; the analysis loop, the
\* cache write and the 200 response follow without another await.
Collect(r, cssCoverage) ==
  /\ pc[r] = "collect"
  /\ LET res == Analyze(cssCoverage)
         url == request[r].url
     IN /\ resultCache' = CacheSet(resultCache, url, res, now)
        /\ response' = [response EXCEPT ![r] = [status |-> 200, body |-> res]]
        /\ puts' = [puts EXCEPT ![url] = Append(@, [by |-> r, result |-> res, timestamp |-> now])]
  /\ pc' = [pc EXCEPT ![r] = "finally"]
  /\ UNCHANGED <<coreVars, request, retries, browser, now, ticks,
                 attempts, failures, checkedAt, seenPuts>>

\* await stopCSSCoverage() rejects.
CollectFail(r) ==
  /\ pc[r] = "collect"
  /\ Catch(r, Thrown("coverage"))
  /\ UNCHANGED <<coreVars, request, retries, browser, resultCache, now, ticks, historyVars>>

\* finally: if (browser) await browser.close().
Finally(r) ==
  /\ pc[r] = "finally"
  /\ browser' = [browser EXCEPT ![r] = IF @ = "none" THEN "none" ELSE "closed"]
  /\ pc' = [pc EXCEPT ![r] = "done"]
  /\ UNCHANGED <<coreVars, request, retries, response, resultCache, now, ticks, historyVars>>

\* Time passes: by a millisecond, or by a millisecond less than the TTL.
Tick(d) ==
  /\ ticks < MaxTicks
  /\ ticks' = ticks + 1
  /\ now' = now + d
  /\ UNCHANGED <<coreVars, pc, request, retries, browser, response, resultCache, historyVars>>

HandlerInit ==
  /\ pc = [r \in Req |-> "idle"]
  /\ request = [r \in Req |-> NoRequest]
  /\ retries = [r \in Req |-> 0]
  /\ browser = [r \in Req |-> "none"]
  /\ response = [r \in Req |-> NoResponse]
  /\ resultCache = [k \in Keys |-> NoEntry]
  /\ now = 0
  /\ ticks = 0
  /\ attempts = [r \in Req |-> 0]
  /\ failures = [r \in Req |-> 0]
  /\ checkedAt = [r \in Req |-> 0]
  /\ seenPuts = [r \in Req |-> 0]
  /\ puts = [k \in Keys |-> <<>>]

\* ----------------------------------------------------------------- actions
\* The synchronous part of handler between stopCSSCoverage and the result.
RunAnalysis ==
  /\ phase = "input"
  /\ phase' = "done"
  /\ result' = Analyze(coverage)
  /\ segmented' = [i \in 1..Len(coverage) |-> parseCSSRules(coverage[i].text)]
  /\ classified' =
       [i \in 1..Len(coverage) |->
          LET rules == parseCSSRules(coverage[i].text)
          IN [k \in 1..Len(rules) |->
                isRuleUsed(rules[k], coverage[i].text, coverage[i].ranges)]]
  /\ UNCHANGED <<coverage, handlerVars, historyVars>>

CoreInit(inputs) ==
  /\ HandlerInit
  /\ coverage \in inputs
  /\ phase = "input"
  /\ result = Analyze(<<>>)
  /\ segmented = <<>>
  /\ classified = <<>>

\* One stylesheet entry at a time.
InitFile == CoreInit(FileInputs)

NextFile == RunAnalysis

SpecFile == InitFile /\ [][NextFile]_vars

\* A page with several stylesheets: external files and inline blocks, empty,
\* without a rule, with one rule, with two rules.
ReportTexts ==
  {<<>>, <<" ">>, <<"{", "}">>, <<"a", "{", "}", "{", "}">>}

ReportEntries ==
  {[url |-> u, text |-> e[1], ranges |-> e[2]] :
     u \in {"", "a.css"},
     e \in UNION {{t} \X SeqsUpTo(RangesOf(Len(t)), 1) : t \in ReportTexts}}

ReportInputs == SeqsUpTo(ReportEntries, MaxFiles)

InitReport == CoreInit(ReportInputs)

NextReport == RunAnalysis

SpecReport == InitReport /\ [][NextReport]_vars

\* The request handler: NumReq requests, each handled once, interleaved at the
\* awaits of handler, sharing resultCache and the clock.
Init ==
  /\ HandlerInit
  /\ coverage = <<>>
  /\ phase = "input"
  /\ result = Analyze(<<>>)
  /\ segmented = <<>>
  /\ classified = <<>>

Next ==
  \/ \E r \in Req, method \in Methods, url \in BodyUrls : Receive(r, method, url)
  \/ \E r \in Req : LaunchOk(r)
  \/ \E r \in Req : LaunchFail(r)
  \/ \E r \in Req : SetupOk(r)
  \/ \E r \in Req : SetupFail(r)
  \/ \E r \in Req : GotoOk(r)
  \/ \E r \in Req : GotoFail(r)
  \/ \E r \in Req : Backoff(r)
  \/ \E r \in Req : Settle(r)
  \/ \E r \in Req, cssCoverage \in HandlerCoverages : Collect(r, cssCoverage)
  \/ \E r \in Req : CollectFail(r)
  \/ \E r \in Req : Finally(r)
  \/ \E d \in {1, CACHE_TTL - 1} : Tick(d)

Spec == Init /\ [][Next]_vars

\* ====================================================== properties, one file
\* What the properties are stated against: the text itself, read directly.
TheText == coverage[1].text
TheRanges == coverage[1].ranges
TheRules == segmented[1]
TheFlags == classified[1]
TheFile == result.files[1]

CountOf(s, c) == Cardinality({i \in 1..Len(s) : s[i] = c})

\* Number of "{" minus number of "}" among the first i characters of s.
DepthAfter(s, i) == CountOf(SubSeq(s, 1, i), "{") - CountOf(SubSeq(s, 1, i), "}")

\* The positions (1-based) of the "}" that bring the depth back to 0.
ClosePoints(text) == {i \in 1..Len(text) : text[i] = "}" /\ DepthAfter(text, i) = 0}

KthClose(text, k) ==
  CHOOSE i \in ClosePoints(text) : Cardinality({j \in ClosePoints(text) : j <= i}) = k

\* First position of what was accumulated for the k-th rule.
BufferFirst(text, k) == IF k = 1 THEN 1 ELSE KthClose(text, k - 1) + 1

\* First position of the k-th rule itself: the accumulated text minus its
\* leading white space.
OwnFirst(text, k) ==
  CHOOSE i \in BufferFirst(text, k)..KthClose(text, k) :
    /\ text[i] # " "
    /\ \A j \in BufferFirst(text, k)..(i - 1) : text[j] = " "

\* The k-th rule's own span [OwnStart, OwnEnd) in 0-based offsets.
OwnStart(text, k) == OwnFirst(text, k) - 1
OwnEnd(text, k) == KthClose(text, k)

SegmentedAtClosePoints == Len(TheRules) = Cardinality(ClosePoints(TheText))

\* C5: parseCSSRules emits one rule for each "}" that brings the depth back to
\* 0, and nothing else: the k-th rule is the text from after the previous such
\* "}" up to the k-th one, trimmed.  Text after the last such "}" is in no
\* rule, and a text without such a "}" (empty, white space, a block never
\* closed) gives no rule.
C5_EmitsAtDepthZero ==
  phase = "done" =>
    /\ SegmentedAtClosePoints
    /\ \A k \in 1..Len(TheRules) :
         TheRules[k] = SubSeq(TheText, OwnFirst(TheText, k), KthClose(TheText, k))

C5_Witness ==
  /\ phase = "done"
  /\ Len(TheRules) = 1
  /\ TheText[1] = " "
  /\ \E i \in 1..Len(TheText) : i > KthClose(TheText, 1) /\ TheText[i] = "{"

NoPrefixNegative(s) == \A i \in 1..Len(s) : DepthAfter(s, i) >= 0

\* The depth comes to 0 from something else only at the last character.
ZeroOnlyAtEnd(s) ==
  \A i \in 1..(Len(s) - 1) : ~(DepthAfter(s, i) = 0 /\ DepthAfter(s, i - 1) # 0)

BalancedRule(r) ==
  /\ CountOf(r, "{") >= 1
  /\ CountOf(r, "{") = CountOf(r, "}")
  /\ NoPrefixNegative(r)
  /\ ZeroOnlyAtEnd(r)

\* C9 as stated: whatever the text, every emitted rule has at least one "{",
\* as many "{" as "}", no prefix with more "}" than "{", and depth 0 again
\* only at its last character.
C9_Original == phase = "done" => \A k \in 1..Len(TheRules) : BalancedRule(TheRules[k])

\* C9 amended: whatever the text, every emitted rule has at least one "{", as
\* many "{" as "}" and ends with "}"; when the text up to the end of the rule
\* has no prefix with more "}" than "{", the rule moreover has no such prefix
\* and its depth is 0 again only at its last character.
C9_BalancedUnlessStrayClose ==
  phase = "done" =>
    /\ SegmentedAtClosePoints
    /\ \A k \in 1..Len(TheRules) :
         LET r == TheRules[k]
         IN /\ CountOf(r, "{") >= 1
            /\ CountOf(r, "{") = CountOf(r, "}")
            /\ r[Len(r)] = "}"
            /\ NoPrefixNegative(SubSeq(TheText, 1, KthClose(TheText, k))) => BalancedRule(r)

C9_Witness ==
  /\ phase = "done"
  /\ NoPrefixNegative(TheText)
  /\ \E k \in 1..Len(TheRules) : CountOf(TheRules[k], "{") >= 2

IsOccurrence(text, rule, p) ==
  /\ p + Len(rule) <= Len(text)
  /\ SubSeq(text, p + 1, p + Len(rule)) = rule

\* C10: every rule parseCSSRules returns occurs in the text, so the search in
\* isRuleUsed finds it; the offset found is at most the offset the rule was
\* taken from; rules with the same text are classified the same.
C10_RuleFoundAtOrBeforeOwnOffset ==
  phase = "done" =>
    /\ SegmentedAtClosePoints
    /\ \A k \in 1..Len(TheRules) :
         /\ indexOf(TheText, TheRules[k]) # -1
         /\ IsOccurrence(TheText, TheRules[k], indexOf(TheText, TheRules[k]))
         /\ indexOf(TheText, TheRules[k]) <= OwnStart(TheText, k)
    /\ \A j, k \in 1..Len(TheRules) : TheRules[j] = TheRules[k] => TheFlags[j] = TheFlags[k]

C10_Witness ==
  /\ phase = "done"
  /\ \E k \in 1..Len(TheRules) : indexOf(TheText, TheRules[k]) < OwnStart(TheText, k)

InsideSingleRange(ranges, from, to) ==
  \E j \in 1..Len(ranges) : ranges[j].start <= from /\ to <= ranges[j].end

TouchesSomeRange(ranges, from, to) ==
  \E j \in 1..Len(ranges) : ranges[j].start < to /\ from < ranges[j].end

OwnSpanDecides(k) ==
  /\ InsideSingleRange(TheRanges, OwnStart(TheText, k), OwnEnd(TheText, k)) => TheFlags[k]
  /\ (/\ TouchesSomeRange(TheRanges, OwnStart(TheText, k), OwnEnd(TheText, k))
      /\ ~InsideSingleRange(TheRanges, OwnStart(TheText, k), OwnEnd(TheText, k)))
       => ~TheFlags[k]

\* C2 as stated: a rule whose own span is inside one range is classified used,
\* and a rule whose own span only partly overlaps ranges is classified unused.
C2_Original ==
  phase = "done" =>
    /\ SegmentedAtClosePoints
    /\ \A k \in 1..Len(TheRules) : OwnSpanDecides(k)

NoEarlierOccurrence(k) ==
  \A p \in 0..(OwnStart(TheText, k) - 1) : ~IsOccurrence(TheText, TheRules[k], p)

\* C2 amended: for a rule whose text does not occur in the stylesheet before
\* the rule's own span: if the span is inside one range the rule is classified
\* used, and if it only partly overlaps ranges it is classified unused.
C2_OwnSpanDecidesFirstOccurrence ==
  phase = "done" =>
    /\ SegmentedAtClosePoints
    /\ \A k \in 1..Len(TheRules) : NoEarlierOccurrence(k) => OwnSpanDecides(k)

C2_Witness ==
  /\ phase = "done"
  /\ Len(TheRules) = 2
  /\ NoEarlierOccurrence(1) /\ NoEarlierOccurrence(2)
  /\ InsideSingleRange(TheRanges, OwnStart(TheText, 1), OwnEnd(TheText, 1))
  /\ TheFlags[1]
  /\ TouchesSomeRange(TheRanges, OwnStart(TheText, 2), OwnEnd(TheText, 2))
  /\ ~TheFlags[2]

\* A rule covered by two adjacent ranges together, but by neither alone.
C2_WitnessTwoRanges ==
  /\ phase = "done"
  /\ Len(TheRanges) = 2
  /\ Len(TheRules) = 1
  /\ \A b \in OwnStart(TheText, 1)..(OwnEnd(TheText, 1) - 1) :
       \E j \in 1..2 : TheRanges[j].start <= b /\ b < TheRanges[j].end
  /\ ~TheFlags[1]

\* C1 as stated: whatever the ranges (any order, overlapping or not), the
\* file's total is the text's length and 0 <= used <= total.
C1_Original ==
  phase = "done" =>
    /\ TheFile.total = Len(TheText)
    /\ 0 <= TheFile.used
    /\ TheFile.used <= TheFile.total

\* The bytes of the ranges, counted once per range that holds them.
CoveredWithMultiplicity(ranges, len) ==
  Cardinality({jb \in (1..Len(ranges)) \X (0..(len - 1)) :
                 ranges[jb[1]].start <= jb[2] /\ jb[2] < ranges[jb[1]].end})

PairwiseDisjoint(ranges) ==
  \A i, j \in 1..Len(ranges) :
    i # j => (ranges[i].end <= ranges[j].start \/ ranges[j].end <= ranges[i].start)

\* C1 amended: the file's total is the text's length and used is the sum of
\* (end - start) over the ranges, in any order, which is at least 0; when no two
\* of the ranges overlap, used <= total.  (Overlapping ranges are counted twice
\* and used can exceed total.)
C1_UsedWithinTotalWhenDisjoint ==
  phase = "done" =>
    /\ TheFile.total = Len(TheText)
    /\ TheFile.used = CoveredWithMultiplicity(TheRanges, Len(TheText))
    /\ 0 <= TheFile.used
    /\ PairwiseDisjoint(TheRanges) => TheFile.used <= TheFile.total

C1_Witness ==
  /\ phase = "done"
  /\ Len(TheRanges) = 2
  /\ PairwiseDisjoint(TheRanges)
  /\ TheRanges[2].end <= TheRanges[1].start
  /\ TheFile.used = TheFile.total
  /\ TheFile.total = Len(TheText)

\* The indices of the rules classified unused, and the n-th of them.
UnusedIndices == {k \in 1..Len(TheRules) : ~TheFlags[k]}

NthUnused(n) ==
  CHOOSE k \in UnusedIndices : Cardinality({j \in UnusedIndices : j <= k}) = n

FirstBrace(rule) ==
  IF \E i \in 1..Len(rule) : rule[i] = "{"
  THEN CHOOSE i \in 1..Len(rule) : rule[i] = "{" /\ \A j \in 1..(i - 1) : rule[j] # "{"
  ELSE Len(rule) + 1

\* C6: unusedRules lists, in segmentation order, exactly the rules of
\* parseCSSRules for which isRuleUsed was false, one item each, with
\* used = false, bytes = length of the rule and selector = the rule's text
\* before its first "{", trimmed.
C6_UnusedRulesAreTheUnusedSubsequence ==
  phase = "done" =>
    /\ TheRules = parseCSSRules(TheText)
    /\ \A k \in 1..Len(TheRules) : TheFlags[k] = isRuleUsed(TheRules[k], TheText, TheRanges)
    /\ Len(TheFile.unusedRules) = Cardinality(UnusedIndices)
    /\ \A n \in 1..Len(TheFile.unusedRules) :
         LET rule == TheRules[NthUnused(n)]
             item == TheFile.unusedRules[n]
         IN /\ item.used = FALSE
            /\ item.bytes = Len(rule)
            /\ item.selector = Trim(SubSeq(rule, 1, FirstBrace(rule) - 1))

C6_Witness ==
  /\ phase = "done"
  /\ Len(TheRules) = 2
  /\ TheFlags = <<TRUE, FALSE>>
  /\ Len(TheFile.unusedRules) = 1
  /\ TheFile.unusedRules[1].selector # <<>>

\* Two different rules, both unused: the order of the list shows.
C6_WitnessOrder ==
  /\ phase = "done"
  /\ TheFlags = <<FALSE, FALSE>>
  /\ TheFile.unusedRules[1].bytes < TheFile.unusedRules[2].bytes

\* ===================================================== properties, one page
\* The sums of the files' fields, taken from the last file backwards.
RECURSIVE SumTotals(_)
SumTotals(files) ==
  IF files = <<>> THEN 0
  ELSE SumTotals(SubSeq(files, 1, Len(files) - 1)) + files[Len(files)].total

RECURSIVE SumUsed(_)
SumUsed(files) ==
  IF files = <<>> THEN 0
  ELSE SumUsed(SubSeq(files, 1, Len(files) - 1)) + files[Len(files)].used

\* C4: totalBytes and usedBytes are the sums of the files' total and used, the
\* files are those of the entries in the order observed, and when totalBytes is
\* 0 (no entry, or only empty texts) usagePercent is the literal 0: nothing was
\* divided, in particular not by 0.
C4_TotalsAreSumsAndZeroPercent ==
  phase = "done" =>
    /\ result.totalBytes = SumTotals(result.files)
    /\ result.usedBytes = SumUsed(result.files)
    /\ Len(result.files) = Len(coverage)
    /\ \A i \in 1..Len(coverage) :
         /\ result.files[i].url = (IF coverage[i].url = "" THEN "inline <style>"
                                                              ELSE coverage[i].url)
         /\ result.files[i].total = Len(coverage[i].text)
         /\ result.files[i].used =
              CoveredWithMultiplicity(coverage[i].ranges, Len(coverage[i].text))
         /\ result.files[i] = FileDetail(coverage[i])
    /\ result.usagePercent.den # 0
    /\ result.totalBytes = 0 => result.usagePercent = [num |-> 0, den |-> 1]
    /\ result.totalBytes # 0 =>
         /\ result.usagePercent.num = 100 * result.usedBytes
         /\ result.usagePercent.den = result.totalBytes

C4_Witness ==
  /\ phase = "done"
  /\ Len(result.files) = 2
  /\ result.files[1].url # result.files[2].url
  /\ result.totalBytes = 0
  /\ result.usagePercent = [num |-> 0, den |-> 1]

\* Two files that differ, with something used.
C4_WitnessSums ==
  /\ phase = "done"
  /\ Len(result.files) = 2
  /\ result.files[1].total < result.files[2].total
  /\ result.files[1].used > result.files[2].used
  /\ result.usedBytes > 0

\* ================================================ properties, the handler
\* The requests that got past the method and url checks.
Looked(r) == pc[r] # "idle" /\ request[r].method = "POST" /\ ~InvalidUrl(request[r].url)

Key(r) == request[r].url

\* r wrote to the cache: one of the resultCache.set calls for its key is r's.
HasPut(r) == \E i \in 1..Len(puts[Key(r)]) : puts[Key(r)][i].by = r

\* The last resultCache.set for r's key before r looked into the cache was
\* less than the TTL before.
FreshAtLook(r) ==
  /\ seenPuts[r] > 0
  /\ checkedAt[r] - puts[Key(r)][seenPuts[r]].timestamp < 3600000

\* C3: a request for k made less than an hour after the latest successful
\* analysis of k stored its result v is answered 200 with v, at once, without
\* a browser, a navigation or a cache write of its own; a request made an hour
\* or more after it (or before any) is not answered from the cache: it goes on
\* to launch the browser, and if it ends with a 200 the result is the one it
\* computed and stored itself.
C3_CacheRoundTrip ==
  \A r \in Req :
    Looked(r) =>
      IF FreshAtLook(r)
      THEN /\ pc[r] = "done"
           /\ response[r] = [status |-> 200, body |-> puts[Key(r)][seenPuts[r]].result]
           /\ browser[r] = "none"
           /\ attempts[r] = 0
           /\ ~HasPut(r)
      ELSE /\ pc[r] \in {"launch", "setup", "goto", "backoff", "settle", "collect",
                         "finally", "done"}
           /\ pc[r] = "done" => response[r].status \in {200, 500}
           /\ response[r].status = 200 =>
                \E i \in (seenPuts[r] + 1)..Len(puts[Key(r)]) :
                  /\ puts[Key(r)][i].by = r
                  /\ puts[Key(r)][i].result = response[r].body
                  /\ puts[Key(r)][i].timestamp >= checkedAt[r]

\* A hit one millisecond before the entry expires.
C3_Witness ==
  \E r \in Req :
    /\ Looked(r)
    /\ FreshAtLook(r)
    /\ checkedAt[r] - puts[Key(r)][seenPuts[r]].timestamp = 3600000 - 1
    /\ response[r].status = 200

\* A miss exactly when the entry expires, recomputed with another result.
C3_WitnessExpired ==
  \E r \in Req :
    /\ Looked(r)
    /\ seenPuts[r] > 0
    /\ checkedAt[r] - puts[Key(r)][seenPuts[r]].timestamp = 3600000
    /\ pc[r] = "done"
    /\ response[r].status = 200
    /\ response[r].body # puts[Key(r)][seenPuts[r]].result

NavigationError == [error |-> <<"CSS analysis failed: ", "navigation">>]

\* C7: a handler calls page.goto at most 3 times, stops calling it at the first
\* success and then goes on to the analysis; when the third call fails too it
\* answers 500 with the error (not a 200, not a result) and has made no cache
\* write; the navigation error is sent only after 3 failed calls.
C7_ThreeAttemptsThenError ==
  \A r \in Req :
    /\ attempts[r] <= 3
    /\ attempts[r] - failures[r] \in {0, 1}
    /\ pc[r] \in {"goto", "backoff"} => attempts[r] = failures[r] /\ failures[r] < 3
    /\ attempts[r] > failures[r] => pc[r] \in {"settle", "collect", "finally", "done"}
    /\ pc[r] \in {"settle", "collect"} => attempts[r] = failures[r] + 1
    /\ failures[r] = 3 =>
         /\ pc[r] \in {"finally", "done"}
         /\ response[r] = [status |-> 500, body |-> NavigationError]
         /\ ~HasPut(r)
    /\ response[r].body = NavigationError => failures[r] = 3 /\ response[r].status = 500

\* Three failed navigations while the other request stored a result for the
\* same url: the answer is the error, the cache holds the other's result.
C7_Witness ==
  \E r, o \in Req :
    /\ r # o
    /\ failures[r] = 3
    /\ pc[r] = "done"
    /\ response[r].status = 500
    /\ Looked(o) /\ Key(o) = Key(r)
    /\ HasPut(o)
    /\ resultCache[Key(r)].present

\* A success at the third attempt.
C7_WitnessThirdTime ==
  \E r \in Req : failures[r] = 2 /\ attempts[r] = 3 /\ response[r].status = 200

\* C8: the cache holds, for each url, exactly what the latest resultCache.set
\* for it wrote (result and timestamp), whoever wrote before; nothing keeps two
\* requests for one url from both missing and both computing, and then the
\* entry is the one of whichever wrote last.
C8_LastWriteWins ==
  \A k \in Keys :
    IF puts[k] = <<>>
    THEN ~resultCache[k].present
    ELSE LET last == puts[k][Len(puts[k])]
         IN /\ resultCache[k].present
            /\ resultCache[k].result = last.result
            /\ resultCache[k].timestamp = last.timestamp

\* Both requests missed while the cache had no entry, both computed, with
\* different results, at different times; the cache holds the second write.
C8_Witness ==
  /\ \A r \in Req : Looked(r) /\ Key(r) = UrlA /\ seenPuts[r] = 0 /\ pc[r] = "done"
  /\ \A r \in Req : response[r].status = 200 /\ HasPut(r)
  /\ Len(puts[UrlA]) = 2
  /\ puts[UrlA][1].result # puts[UrlA][2].result
  /\ puts[UrlA][1].timestamp < puts[UrlA][2].timestamp
  /\ resultCache[UrlA].result = puts[UrlA][2].result
  /\ resultCache[UrlA].timestamp = puts[UrlA][2].timestamp

====
